---- MODULE Spec2Model ----
(***************************************************************************)
(* appbase::execution_priority_queue                                       *)
(* (include/appbase/execution_priority_queue.hpp)                          *)
(*                                                                         *)
(* State machine of the queue, its mutex and the threads that call it.     *)
(* Every thread has a call stack of frames: a callback run by execute_all  *)
(* or execute_highest may itself call add, the executor verbs,             *)
(* execute_highest or execute_all on the same queue.  A critical section   *)
(* is two steps: taking handlers_mutex_, then the guarded body together    *)
(* with the release at the end of the lock_guard's scope.                  *)
(***************************************************************************)
EXTENDS Integers, Sequences, FiniteSets

----------------------------------------------------------------------------
(* Bounds of the model *)

\* width of std::size_t in the model (bits)
SizeBits == 3
\* adds (made or committed to by a queued callback) in Spec
MaxAdds == 3
\* adds in SpecCb (one thread, callbacks of every kind)
MaxAddsCb == 3
\* adds in SpecRe (two threads, callbacks that call back into the queue)
MaxAddsRe == 2
\* adds in SpecSeq (one thread, callbacks that just return)
MaxAddsSeq == 4
\* adds in SpecFill (concurrent adds, then one draining thread)
MaxAddsFill == 4
\* pending items in SpecWrap (the counter run down to exhaustion)
MaxPending == 2
\* queue instances besides the one the model follows (SpecEq)
MaxOtherQueues == 2
\* adds in SpecBind (wrapped handlers completed by a third party)
MaxAddsBind == 3
\* adds in SpecDrive (a loop polling execute_highest, another thread adding)
MaxAddsDrive == 2

Threads == {"t1", "t2"}
Main    == "t1"
NoThread == "none"

\* struct priority, lines 9-13
high   == 100
medium == 50
low    == 10
Priorities == {low, medium, high}

\* std::numeric_limits<size_t>::max(), line 167
SIZE_MAX == 2^SizeBits - 1

----------------------------------------------------------------------------
(* Callbacks (the Function objects given to add).  kind says what the      *)
(* callback does when run; a submitting callback hands on a callback of    *)
(* its own kind depth-1 times and then a callback that just returns.       *)

SubmitKinds == {"add", "dispatch", "post", "defer"}
RunKinds    == {"execute_highest", "execute_all"}

Fn(k, p, d) == [kind |-> k, prio |-> p, depth |-> d]
Nop   == Fn("nop", 0, 0)
Throw == Fn("throw", 0, 0)

Child(f) == IF f.depth > 0 THEN Fn(f.kind, f.prio, f.depth - 1) ELSE Nop

\* adds that submitting f commits to: its own and those its callback makes
Cost(f) == IF f.kind \in SubmitKinds THEN f.depth + 2 ELSE 1

----------------------------------------------------------------------------
VARIABLES
  handlers_,        \* the priority_queue: a set of queued_handler records
  order_,           \* the tie-break counter
  handlers_mutex_,  \* the thread holding the mutex, or NoThread
  stack,            \* per thread: the frames of its calls, innermost last
  result,           \* per thread: how its last outermost call ended
  added,            \* history: the handlers in the order add made them
  log,              \* history: ids in the order execute() was entered
  lastAdd,          \* history: Len(log) when the latest add inserted
  committed,        \* history: adds made or committed to so far
  entry,            \* history: per thread, the queue when its last outermost
                    \* execute_all / execute_highest began (SpecSeq only)
  cmp,              \* the two executors a caller holds and how they compared
                    \* (SpecEq only)
  driver            \* where the loop that polls execute_highest is
                    \* (SpecDrive only)

vars == <<handlers_, order_, handlers_mutex_, stack, result, added, log,
          lastAdd, committed, entry, cmp, driver>>

\* boost::none, or a frame that holds no handler
NoHandler == [priority_ |-> 0, order_ |-> 0, function_ |-> Nop, id |-> 0]

\* queued_handler(p, order, f); id is the object's identity
queued_handler(p, o, f, i) ==
  [priority_ |-> p, order_ |-> o, function_ |-> f, id |-> i]

----------------------------------------------------------------------------
(* Ordering: lines 116-120 and 157-164 *)

\* mutant of Less: the tie-break on order_ is left out
LessPriorityOnly(a, b) == a.priority_ < b.priority_

\* operator<: std::tie(a.priority_, a.order_) < std::tie(b.priority_, b.order_)
Less(a, b) ==
  \/ a.priority_ < b.priority_
  \/ a.priority_ = b.priority_ /\ a.order_ < b.order_

\* ptr_less: *a < *b
ptr_less(a, b) == Less(a, b)

\* mutant of IsTop: the comparison is the wrong way round (a min-heap)
IsLeast(h, hs) == h \in hs /\ \A g \in hs : ~ptr_less(g, h)

\* handlers_.top(): an element no other element is greater than.  Between
\* elements the comparator does not separate the heap's choice is open.
IsTop(h, hs) == h \in hs /\ \A g \in hs : ~ptr_less(h, g)

\* --order_ on std::size_t
Decrement(o) == (o + SIZE_MAX) % (SIZE_MAX + 1)

----------------------------------------------------------------------------
(* Frames *)

Frame(op, pc, p, f) ==
  [op |-> op, pc |-> pc, priority |-> p, function |-> f, via |-> op,
   bound |-> p, top |-> NoHandler, ret |-> FALSE]

\* add(priority, function): a call of it, about to take the mutex
add(p, f) == Frame("add", "lock", p, f)

\* mutant of dispatch: the executor's priority_ is not passed on
dispatch_unprioritised(p, f) == add(0, f)

\* executor(q, p).dispatch(f) / post(f) / defer(f): context_.add(priority_, f)
dispatch(p, f) == add(p, f)
post(p, f)     == add(p, f)
defer(p, f)    == add(p, f)

\* the call a submission verb makes, tagged with the verb and with the
\* priority the caller asked for
Submit(verb, p, f) ==
  LET fr == CASE verb = "dispatch" -> dispatch(p, f)
              [] verb = "post"     -> post(p, f)
              [] verb = "defer"    -> defer(p, f)
              [] OTHER             -> add(p, f)
  IN [fr EXCEPT !.via = verb, !.bound = p]

\* execute_all() / execute_highest(): a call of it, about to call get_top_handler
Run(op) == Frame(op, "get_top", 0, Nop)

Depth(t)  == Len(stack[t])
Idle(t)   == stack[t] = <<>>
Top(t)    == stack[t][Depth(t)]
At(t, ops, pcs) == ~Idle(t) /\ Top(t).op \in ops /\ Top(t).pc \in pcs

SetTop(t, fr) == [stack EXCEPT ![t] = [@ EXCEPT ![Len(@)] = fr]]
Push(t, cur, fr) == [stack EXCEPT ![t] = Append([@ EXCEPT ![Len(@)] = cur], fr)]
Pop(t) == [stack EXCEPT ![t] = SubSeq(@, 1, Len(@) - 1)]

\* what the history keeps of the queue when an outermost call begins
Snapshot == [taken |-> TRUE, handlers |-> handlers_, order |-> order_,
             loglen |-> Len(log)]
NoSnapshot == [taken |-> FALSE, handlers |-> {}, order |-> 0, loglen |-> 0]

\* the innermost call of t returns; an outermost call reports to the driver
Return(t, value) ==
  /\ stack' = Pop(t)
  /\ result' = IF Depth(t) = 1 THEN [result EXCEPT ![t] = value] ELSE result
  /\ UNCHANGED <<entry, cmp, driver>>

\* mutant of AfterExecute: execute_all runs one handler (if for while)
AfterExecuteOnce(op) == IF op = "execute_all" THEN "return" ELSE "check_lock"

\* where execute_all / execute_highest go on after top->execute()
AfterExecute(op) == IF op = "execute_all" THEN "get_top" ELSE "check_lock"
\* mutant of AfterNone: the optional is dereferenced without the test
AfterNoneUnchecked(op) == "execute"

\* mutant of AfterNone: execute_highest returns false at once when it
\* popped nothing
AfterNoneReturnsFalse(op) == "return"

\* where they go on when get_top_handler returned boost::none
AfterNone(op) == IF op = "execute_all" THEN "return" ELSE "check_lock"

----------------------------------------------------------------------------
(* Executors, lines 44-91, and wrap, lines 93-98 *)

\* the queue the model follows, and the other queue instances there are
ThisQueue == 0
Queues == 0..MaxOtherQueues

\* executor(q, p): context_(q), priority_(p)
executor(q, p) == [context_ |-> q, priority_ |-> p]
NoExecutor == [context_ |-> -1, priority_ |-> 0]

\* mutant of operator_eq: the queues are not compared
operator_eq_priority_only(a, b) == a.priority_ = b.priority_

\* operator==: &context_ == &other.context_ && priority_ == other.priority_
operator_eq(a, b) == a.context_ = b.context_ /\ a.priority_ = b.priority_

\* operator!=: !operator==(other)
operator_ne(a, b) == ~operator_eq(a, b)

\* what a caller holds: two executors, what each was constructed from, and
\* the values of == and != once it has compared them
NoComparison ==
  [left |-> NoExecutor, right |-> NoExecutor,
   from |-> [left |-> <<-1, 0>>, right |-> <<-1, 0>>],
   compared |-> FALSE, eq |-> FALSE, ne |-> FALSE]

\* mutant of wrap: the priority is not handed to the executor
wrap_unprioritised(p, f) == [executor |-> executor(ThisQueue, 0), target |-> f]

\* wrap(priority, func): bind_executor(executor(*this, priority), func)
wrap(p, f) == [executor |-> executor(ThisQueue, p), target |-> f]

\* a third party completes the bound pair b: the function goes through the
\* executor the pair is bound to
complete(b) == dispatch(b.executor.priority_, b.target)

----------------------------------------------------------------------------
(* The threads' outermost calls *)

Init ==
  /\ handlers_ = {}
  /\ order_ = SIZE_MAX
  /\ handlers_mutex_ = NoThread
  /\ stack = [t \in Threads |-> <<>>]
  /\ result = [t \in Threads |-> "none"]
  /\ added = <<>>
  /\ log = <<>>
  /\ lastAdd = 0
  /\ committed = 0
  /\ entry = [t \in Threads |-> NoSnapshot]
  /\ cmp = NoComparison
  /\ driver = "polling"

\* the driver of thread t calls add or an executor verb
CallSubmit(t, verb, p, f) ==
  /\ Idle(t)
  /\ stack' = [stack EXCEPT ![t] = <<Submit(verb, p, f)>>]
  /\ result' = [result EXCEPT ![t] = "none"]
  /\ committed' = committed + Cost(f)
  /\ entry' = [entry EXCEPT ![t] = NoSnapshot]
  /\ UNCHANGED <<handlers_, order_, handlers_mutex_, added, log, lastAdd, cmp,
                 driver>>

\* the driver of thread t calls execute_all or execute_highest; snap is what
\* the history keeps of the queue at the call
CallRun(t, op, snap) ==
  /\ Idle(t)
  /\ stack' = [stack EXCEPT ![t] = <<Run(op)>>]
  /\ result' = [result EXCEPT ![t] = "none"]
  /\ entry' = [entry EXCEPT ![t] = snap]
  /\ UNCHANGED <<handlers_, order_, handlers_mutex_, added, log, lastAdd,
                 committed, cmp, driver>>

----------------------------------------------------------------------------
(* add, lines 19-25 *)

\* mutant of add_lock: add does not wait for the mutex
add_lock_unguarded(t) ==
  /\ At(t, {"add"}, {"lock"})
  /\ handlers_mutex_' = t
  /\ stack' = SetTop(t, [Top(t) EXCEPT !.pc = "push"])
  /\ UNCHANGED <<handlers_, order_, result, added, log, lastAdd, committed, entry, cmp, driver>>

\* line 22: std::lock_guard guard(handlers_mutex_)
add_lock(t) ==
  /\ At(t, {"add"}, {"lock"})
  /\ handlers_mutex_ = NoThread
  /\ handlers_mutex_' = t
  /\ stack' = SetTop(t, [Top(t) EXCEPT !.pc = "push"])
  /\ UNCHANGED <<handlers_, order_, result, added, log, lastAdd, committed, entry, cmp, driver>>

\* mutant of add_push: order_-- for --order_, the handler gets the old value
add_push_postdecrement(t) ==
  /\ At(t, {"add"}, {"push"})
  /\ LET fr == Top(t)
         h  == queued_handler(fr.priority, order_, fr.function, Len(added) + 1)
     IN /\ order_' = Decrement(order_)
        /\ handlers_' = handlers_ \cup {h}
        /\ added' = Append(added, h)
  /\ lastAdd' = Len(log)
  /\ handlers_mutex_' = NoThread
  /\ Return(t, "void")
  /\ UNCHANGED <<log, committed>>

\* lines 23-25: new queued_handler(priority, --order_, function); push; unlock
add_push(t) ==
  /\ At(t, {"add"}, {"push"})
  /\ LET fr == Top(t)
         h  == queued_handler(fr.priority, Decrement(order_), fr.function,
                              Len(added) + 1)
     IN /\ order_' = Decrement(order_)
        /\ handlers_' = handlers_ \cup {h}
        /\ added' = Append(added, h)
  /\ lastAdd' = Len(log)
  /\ handlers_mutex_' = NoThread
  /\ Return(t, "void")
  /\ UNCHANGED <<log, committed>>

----------------------------------------------------------------------------
(* get_top_handler, lines 147-155, as called at lines 29 and 36 *)

\* line 148
get_top_handler_lock(t) ==
  /\ At(t, RunKinds, {"get_top"})
  /\ handlers_mutex_ = NoThread
  /\ handlers_mutex_' = t
  /\ stack' = SetTop(t, [Top(t) EXCEPT !.pc = "pop"])
  /\ UNCHANGED <<handlers_, order_, result, added, log, lastAdd, committed, entry, cmp, driver>>

\* lines 149-151: the queue is empty, boost::none
get_top_handler_none(t) ==
  /\ At(t, RunKinds, {"pop"})
  /\ handlers_ = {}
  /\ handlers_mutex_' = NoThread
  /\ stack' = SetTop(t, [Top(t) EXCEPT !.pc = AfterNone(Top(t).op),
                                       !.top = NoHandler])
  /\ UNCHANGED <<handlers_, order_, result, added, log, lastAdd, committed, entry, cmp, driver>>

\* mutant of get_top_handler_pop: handlers_.pop() is left out
get_top_handler_peek(t) ==
  /\ At(t, RunKinds, {"pop"})
  /\ \E h \in handlers_ :
       /\ IsTop(h, handlers_)
       /\ stack' = SetTop(t, [Top(t) EXCEPT !.pc = "execute", !.top = h])
  /\ handlers_mutex_' = NoThread
  /\ UNCHANGED <<handlers_, order_, result, added, log, lastAdd, committed, entry, cmp, driver>>

\* mutant of get_top_handler_pop: the guard is still held when it returns
get_top_handler_pop_locked(t) ==
  /\ At(t, RunKinds, {"pop"})
  /\ \E h \in handlers_ :
       /\ IsTop(h, handlers_)
       /\ handlers_' = handlers_ \ {h}
       /\ stack' = SetTop(t, [Top(t) EXCEPT !.pc = "execute", !.top = h])
  /\ UNCHANGED <<handlers_mutex_, order_, result, added, log, lastAdd, committed, entry, cmp, driver>>

\* mutant of get_top_handler_pop: order_ starts afresh when the queue empties
get_top_handler_pop_reset(t) ==
  /\ At(t, RunKinds, {"pop"})
  /\ \E h \in handlers_ :
       /\ IsTop(h, handlers_)
       /\ handlers_' = handlers_ \ {h}
       /\ stack' = SetTop(t, [Top(t) EXCEPT !.pc = "execute", !.top = h])
  /\ order_' = IF handlers_' = {} THEN SIZE_MAX ELSE order_
  /\ handlers_mutex_' = NoThread
  /\ UNCHANGED <<result, added, log, lastAdd, committed, entry, cmp, driver>>

\* lines 152-154: top(), pop(), return handler
get_top_handler_pop(t) ==
  /\ At(t, RunKinds, {"pop"})
  /\ \E h \in handlers_ :
       /\ IsTop(h, handlers_)
       /\ handlers_' = handlers_ \ {h}
       /\ stack' = SetTop(t, [Top(t) EXCEPT !.pc = "execute", !.top = h])
  /\ handlers_mutex_' = NoThread
  /\ UNCHANGED <<order_, result, added, log, lastAdd, committed, entry, cmp, driver>>

----------------------------------------------------------------------------
(* top->execute(), lines 30 and 37, and the callback it runs *)

\* queued_handler::execute, lines 137-140: function_() is entered
execute(t) ==
  /\ At(t, RunKinds, {"execute"})
  /\ log' = Append(log, Top(t).top.id)
  /\ stack' = SetTop(t, [Top(t) EXCEPT !.pc = "callback"])
  /\ UNCHANGED <<handlers_, order_, handlers_mutex_, result, added, lastAdd,
                 committed, entry, cmp, driver>>

\* function_() returns without having called the queue
function_returns(t) ==
  /\ At(t, RunKinds, {"callback"})
  /\ Top(t).top.function_.kind = "nop"
  /\ stack' = SetTop(t, [Top(t) EXCEPT !.pc = AfterExecute(Top(t).op),
                                       !.top = NoHandler])
  /\ UNCHANGED <<handlers_, order_, handlers_mutex_, result, added, log,
                 lastAdd, committed, entry, cmp, driver>>

\* function_() returns after the call it made on the queue has returned
function_resumes(t) ==
  /\ At(t, RunKinds, {"called"})
  /\ stack' = SetTop(t, [Top(t) EXCEPT !.pc = AfterExecute(Top(t).op),
                                       !.top = NoHandler])
  /\ UNCHANGED <<handlers_, order_, handlers_mutex_, result, added, log,
                 lastAdd, committed, entry, cmp, driver>>

\* function_() calls add or an executor verb on the same queue
function_submits(t) ==
  /\ At(t, RunKinds, {"callback"})
  /\ LET f == Top(t).top.function_
     IN /\ f.kind \in SubmitKinds
        /\ stack' = Push(t, [Top(t) EXCEPT !.pc = "called"],
                         Submit(f.kind, f.prio, Child(f)))
  /\ UNCHANGED <<handlers_, order_, handlers_mutex_, result, added, log,
                 lastAdd, committed, entry, cmp, driver>>

\* function_() calls execute_highest or execute_all on the same queue
function_runs(t) ==
  /\ At(t, RunKinds, {"callback"})
  /\ LET f == Top(t).top.function_
     IN /\ f.kind \in RunKinds
        /\ stack' = Push(t, [Top(t) EXCEPT !.pc = "called"], Run(f.kind))
  /\ UNCHANGED <<handlers_, order_, handlers_mutex_, result, added, log,
                 lastAdd, committed, entry, cmp, driver>>

\* mutant of function_throws: the failed handler is put back for a retry
function_throws_requeued(t) ==
  /\ At(t, RunKinds, {"callback"})
  /\ Top(t).top.function_.kind = "throw"
  /\ handlers_' = handlers_ \cup {Top(t).top}
  /\ stack' = [stack EXCEPT ![t] = <<>>]
  /\ result' = [result EXCEPT ![t] = "exception"]
  /\ UNCHANGED <<order_, handlers_mutex_, added, log, lastAdd, committed, entry, cmp, driver>>

\* function_() throws: nothing on the way up catches (lines 29-31, 36-38),
\* every frame of the thread is unwound and the driver gets the exception
function_throws(t) ==
  /\ At(t, RunKinds, {"callback"})
  /\ Top(t).top.function_.kind = "throw"
  /\ stack' = [stack EXCEPT ![t] = <<>>]
  /\ result' = [result EXCEPT ![t] = "exception"]
  /\ UNCHANGED <<handlers_, order_, handlers_mutex_, added, log, lastAdd,
                 committed, entry, cmp, driver>>

----------------------------------------------------------------------------
(* execute_highest's second critical section, lines 40-41, and the returns *)

\* line 40
execute_highest_lock(t) ==
  /\ At(t, {"execute_highest"}, {"check_lock"})
  /\ handlers_mutex_ = NoThread
  /\ handlers_mutex_' = t
  /\ stack' = SetTop(t, [Top(t) EXCEPT !.pc = "check"])
  /\ UNCHANGED <<handlers_, order_, result, added, log, lastAdd, committed, entry, cmp, driver>>

\* mutant of execute_highest_check: returns handlers_.empty()
execute_highest_check_negated(t) ==
  /\ At(t, {"execute_highest"}, {"check"})
  /\ handlers_mutex_' = NoThread
  /\ stack' = SetTop(t, [Top(t) EXCEPT !.pc = "return", !.ret = (handlers_ = {})])
  /\ UNCHANGED <<handlers_, order_, result, added, log, lastAdd, committed, entry, cmp, driver>>

\* line 41: the value of !handlers_.empty(); the guard is released
execute_highest_check(t) ==
  /\ At(t, {"execute_highest"}, {"check"})
  /\ handlers_mutex_' = NoThread
  /\ stack' = SetTop(t, [Top(t) EXCEPT !.pc = "return", !.ret = (handlers_ # {})])
  /\ UNCHANGED <<handlers_, order_, result, added, log, lastAdd, committed, entry, cmp, driver>>

\* line 41: execute_highest hands its value to the caller
execute_highest_return(t) ==
  /\ At(t, {"execute_highest"}, {"return"})
  /\ Return(t, IF Top(t).ret THEN "true" ELSE "false")
  /\ UNCHANGED <<handlers_, order_, handlers_mutex_, added, log, lastAdd, committed>>

\* line 32: execute_all returns
execute_all_return(t) ==
  /\ At(t, {"execute_all"}, {"return"})
  /\ Return(t, "void")
  /\ UNCHANGED <<handlers_, order_, handlers_mutex_, added, log, lastAdd, committed>>

\* a step of thread t inside the queue's own code
QueueStep(t) ==
  \/ add_lock(t)
  \/ add_push(t)
  \/ get_top_handler_lock(t)
  \/ get_top_handler_none(t)
  \/ get_top_handler_pop(t)
  \/ execute(t)
  \/ function_returns(t)
  \/ execute_highest_lock(t)
  \/ execute_highest_check(t)
  \/ execute_highest_return(t)
  \/ execute_all_return(t)

\* a step of a callback that calls the queue or throws
CallbackStep(t) ==
  \/ function_submits(t)
  \/ function_runs(t)
  \/ function_resumes(t)
  \/ function_throws(t)

----------------------------------------------------------------------------
(* Specifications *)

Verbs == SubmitKinds

\* Spec: two threads, each calling anything at any time
SpecPriorities == {low, high}
SpecFunctions == {Nop, Fn("add", high, 0)}

Next ==
  \E t \in Threads :
    \/ \E p \in SpecPriorities, f \in SpecFunctions :
         /\ committed + Cost(f) <= MaxAdds
         /\ CallSubmit(t, "add", p, f)
    \/ \E op \in RunKinds : CallRun(t, op, NoSnapshot)
    \/ QueueStep(t)
    \/ function_submits(t)
    \/ function_resumes(t)

Spec == Init /\ [][Next]_vars

\* SpecSeq: one thread, the three named priorities, callbacks that just return
NextSeq ==
  \/ \E p \in Priorities :
       /\ committed + Cost(Nop) <= MaxAddsSeq
       /\ CallSubmit(Main, "add", p, Nop)
  \/ \E op \in RunKinds : CallRun(Main, op, Snapshot)
  \/ QueueStep(Main)

SpecSeq == Init /\ [][NextSeq]_vars

\* SpecCb: one thread, callbacks of every kind
CbPriorities == {low, high}
CbFunctions ==
  {Nop, Throw, Fn("execute_highest", 0, 0), Fn("execute_all", 0, 0),
   Fn("add", high, 1)}
    \cup {Fn(k, p, 0) : k \in SubmitKinds, p \in CbPriorities}

NextCb ==
  \/ \E verb \in Verbs, p \in CbPriorities, f \in CbFunctions :
       /\ committed + Cost(f) <= MaxAddsCb
       /\ CallSubmit(Main, verb, p, f)
  \/ \E op \in RunKinds : CallRun(Main, op, NoSnapshot)
  \/ QueueStep(Main)
  \/ CallbackStep(Main)

SpecCb == Init /\ [][NextCb]_vars

\* SpecRe: two threads, one priority, callbacks that call back into the queue
ReFunctions ==
  {Nop, Fn("add", high, 0), Fn("execute_highest", 0, 0), Fn("execute_all", 0, 0)}

NextRe ==
  \E t \in Threads :
    \/ \E f \in ReFunctions :
         /\ committed + Cost(f) <= MaxAddsRe
         /\ CallSubmit(t, "add", high, f)
    \/ \E op \in RunKinds : CallRun(t, op, NoSnapshot)
    \/ QueueStep(t)
    \/ function_submits(t)
    \/ function_runs(t)
    \/ function_resumes(t)

SpecRe == Init /\ [][NextRe]_vars

\* SpecFill: the threads add concurrently; once every add has returned the
\* main thread alone drains.  No add is called after a handler has run.
\* Each thread adds priorities of its own (medium is shared), so that the
\* history shows whose handlers were interleaved.
FillPriorities(t) == IF t = Main THEN {low, medium} ELSE {medium, high}
Draining == ~Idle(Main) /\ stack[Main][1].op \in RunKinds

NextFill ==
  \E t \in Threads :
    \/ \E p \in FillPriorities(t) :
         /\ committed + Cost(Nop) <= MaxAddsFill
         /\ log = <<>>
         /\ ~Draining
         /\ CallSubmit(t, "add", p, Nop)
    \/ \E op \in RunKinds :
         /\ t = Main
         /\ \A u \in Threads : Idle(u)
         /\ CallRun(t, op, NoSnapshot)
    \/ QueueStep(t)

SpecFill == Init /\ [][NextFill]_vars

\* SpecWrap: one thread, one priority, adds until one past the exhaustion
\* of the counter, at most MaxPending handlers pending
NextWrap ==
  \/ /\ Len(added) <= SIZE_MAX
     /\ Cardinality(handlers_) < MaxPending
     /\ CallSubmit(Main, "add", low, Nop)
  \/ \E op \in RunKinds : CallRun(Main, op, NoSnapshot)
  \/ QueueStep(Main)

SpecWrap == Init /\ [][NextWrap]_vars

\* SpecEq: a caller constructs executors on any of the queues and compares
\* them
executor_construct(side, q, p) ==
  /\ cmp' = [cmp EXCEPT ![side] = executor(q, p), !.from[side] = <<q, p>>,
                        !.compared = FALSE, !.eq = FALSE, !.ne = FALSE]
  /\ UNCHANGED <<handlers_, order_, handlers_mutex_, stack, result, added, log,
                 lastAdd, committed, entry, driver>>

executor_compare ==
  /\ cmp.left # NoExecutor
  /\ cmp.right # NoExecutor
  /\ ~cmp.compared
  /\ cmp' = [cmp EXCEPT !.compared = TRUE,
                        !.eq = operator_eq(cmp.left, cmp.right),
                        !.ne = operator_ne(cmp.left, cmp.right)]
  /\ UNCHANGED <<handlers_, order_, handlers_mutex_, stack, result, added, log,
                 lastAdd, committed, entry, driver>>

NextEq ==
  \/ \E side \in {"left", "right"}, q \in Queues, p \in Priorities :
       executor_construct(side, q, p)
  \/ executor_compare

SpecEq == Init /\ [][NextEq]_vars

\* SpecBind: one thread; handlers are submitted through an executor or
\* wrapped and later completed by a third party
BindFunctions == {Nop, Fn("add", high, 0)}

CallWrapped(t, p, f) ==
  /\ Idle(t)
  /\ stack' = [stack EXCEPT ![t] =
                 <<[complete(wrap(p, f)) EXCEPT !.via = "wrap", !.bound = p]>>]
  /\ result' = [result EXCEPT ![t] = "none"]
  /\ committed' = committed + Cost(f)
  /\ entry' = [entry EXCEPT ![t] = NoSnapshot]
  /\ UNCHANGED <<handlers_, order_, handlers_mutex_, added, log, lastAdd, cmp,
                 driver>>

NextBind ==
  \/ \E p \in Priorities, f \in BindFunctions :
       /\ committed + Cost(f) <= MaxAddsBind
       /\ \/ CallWrapped(Main, p, f)
          \/ CallSubmit(Main, "dispatch", p, f)
  \/ \E op \in RunKinds : CallRun(Main, op, NoSnapshot)
  \/ QueueStep(Main)
  \/ function_submits(Main)
  \/ function_resumes(Main)

SpecBind == Init /\ [][NextBind]_vars

\* SpecDrive: the main thread is a loop that calls execute_highest until it
\* returns false, and may call again after it has stopped; the other thread
\* adds, at any time, a bounded number of handlers.  A thread inside a call
\* keeps running, and so does the loop.
DrivePriorities == {low, high}
DriveFunctions == {Nop, Fn("add", high, 0)}
Adder == "t2"

\* while (q.execute_highest()) ;
driver_polls ==
  /\ driver = "polling"
  /\ result[Main] # "false"
  /\ CallRun(Main, "execute_highest", NoSnapshot)

\* execute_highest returned false: the loop ends
driver_stops ==
  /\ driver = "polling"
  /\ Idle(Main)
  /\ result[Main] = "false"
  /\ driver' = "stopped"
  /\ UNCHANGED <<handlers_, order_, handlers_mutex_, stack, result, added, log,
                 lastAdd, committed, entry, cmp>>

\* a further call after the loop has ended
driver_calls_again ==
  /\ driver = "stopped"
  /\ \E op \in RunKinds : CallRun(Main, op, NoSnapshot)

DriverStep ==
  \/ driver_polls
  \/ driver_stops
  \/ driver_calls_again
  \/ QueueStep(Main)
  \/ function_submits(Main)
  \/ function_resumes(Main)

NextDrive ==
  \/ DriverStep
  \/ \E p \in DrivePriorities, f \in DriveFunctions :
       /\ committed + Cost(f) <= MaxAddsDrive
       /\ CallSubmit(Adder, "add", p, f)
  \/ QueueStep(Adder)

SpecDrive ==
  /\ Init
  /\ [][NextDrive]_vars
  /\ WF_vars(DriverStep)
  /\ WF_vars(QueueStep(Adder))

----------------------------------------------------------------------------
(* Properties *)

Ids == 1..Len(added)
PendingIds == {h.id : h \in handlers_}
\* how often execute() was entered for handler i
Count(i) == Cardinality({k \in 1..Len(log) : log[k] = i})
LogPriority(k) == added[log[k]].priority_
PrioritiesAdded == [i \in Ids |-> added[i].priority_]

\* C1 (SpecSeq): the callbacks run after the latest add run in
\* non-increasing priority order, and callbacks of equal priority always run
\* in the order they were added (ids count the adds).  SpecSeq makes fewer
\* adds than order_ has values; the counter's exhaustion is C10's case.
C1_PriorityThenFifo ==
  \A i, j \in 1..Len(log) :
    i < j =>
      /\ i > lastAdd => LogPriority(i) >= LogPriority(j)
      /\ LogPriority(i) = LogPriority(j) => log[i] < log[j]

\* adds (10,A),(100,B),(10,C),(50,D), then a drain: B, D, A, C
C1_Example ==
  /\ PrioritiesAdded = <<low, high, low, medium>>
  /\ lastAdd = 0
  /\ log = <<2, 4, 1, 3>>
  /\ Idle(Main)

\* C3 (SpecCb): with one thread, when execute_highest has returned to the
\* driver its value is true exactly if an item is pending, and the value a
\* returning execute_highest holds is true exactly if an item is pending
C3_ReturnsWhetherPending ==
  /\ (Idle(Main) /\ result[Main] \in {"true", "false"}) =>
       (result[Main] = "true" <=> handlers_ # {})
  /\ At(Main, {"execute_highest"}, {"return"}) =>
       (Top(Main).ret <=> handlers_ # {})

\* the only pending item ran, its callback added an item, and
\* execute_highest returned true
C3_TrueAfterCallbackAdded ==
  /\ Idle(Main)
  /\ result[Main] = "true"
  /\ Len(added) = 2
  /\ added[1].function_.kind = "add"
  /\ log = <<1>>
  /\ PendingIds = {2}

\* C4 (SpecSeq): during and after an execute_highest or execute_all that
\* began on an empty queue, the store is empty, the counter and the number
\* of executions are what they were, no handler is held, and the call
\* returns false (execute_highest) or returns (execute_all)
C4_EmptyQueueNoOp ==
  LET e == entry[Main]
  IN (e.taken /\ e.handlers = {}) =>
       /\ handlers_ = {}
       /\ order_ = e.order
       /\ Len(log) = e.loglen
       /\ Idle(Main) => result[Main] \in {"false", "void"}
       /\ ~Idle(Main) =>
            /\ Top(Main).top = NoHandler
            /\ Top(Main).pc \notin {"execute", "callback", "called"}
            /\ ~Top(Main).ret

\* execute_highest returned false on a queue that was empty when it was
\* called, after earlier adds and executions
C4_EmptyAgain ==
  /\ Idle(Main)
  /\ entry[Main].taken
  /\ entry[Main].handlers = {}
  /\ result[Main] = "false"
  /\ Len(log) = 2
  /\ entry[Main].order = SIZE_MAX - 2

\* C5 (SpecCb): no handler is executed twice, and when execute_all returns
\* with one thread every handler added so far, by the driver or by a
\* callback, has been executed exactly once
C5_ExecuteAllRunsEachOnce ==
  /\ \A i \in Ids : Count(i) <= 1
  /\ At(Main, {"execute_all"}, {"return"}) =>
       /\ \A i \in Ids : Count(i) = 1
       /\ Len(log) = Len(added)

\* execute_all returns to the driver having run a callback, the item that
\* callback added and the item that one added
C5_TransitiveDrain ==
  /\ At(Main, {"execute_all"}, {"return"})
  /\ Depth(Main) = 1
  /\ Len(added) = 3
  /\ added[1].function_ = Fn("add", high, 1)
  /\ added[1].priority_ = low
  /\ log = <<1, 2, 3>>

\* ids of the handlers some call holds: popped, callback not yet returned
Held ==
  UNION {{stack[t][k].top.id : k \in 1..Len(stack[t])} : t \in Threads} \ {0}
Executed == {log[k] : k \in 1..Len(log)}
\* (priority, sequence) of g is lexicographically below that of h
KeyBelow(g, h) ==
  \/ g.priority_ < h.priority_
  \/ g.priority_ = h.priority_ /\ g.order_ < h.order_
\* thread t takes the step that ends get_top_handler's critical section
PopStep(t) == At(t, RunKinds, {"pop"}) /\ stack'[t] # stack[t]

\* C2 (Spec): the store holds exactly the handlers whose add has inserted
\* and that no pop has taken, and every pop takes from it the one handler
\* whose (priority, sequence) is above that of every other pending handler
C2_PopTakesGreatest ==
  /\ [](handlers_ = {added[i] : i \in Ids \ (Held \cup Executed)})
  /\ [][\A t \in Threads :
          (PopStep(t) /\ handlers_ # {}) =>
            \E h \in handlers_ :
              /\ \A g \in handlers_ \ {h} : KeyBelow(g, h)
              /\ handlers_' = handlers_ \ {h}
              /\ stack'[t][Len(stack'[t])].top = h]_vars

\* a pop has just taken the older of two pending handlers of one priority
\* while the other thread is inside add, not yet holding the mutex
C2_PopBesideAdd ==
  \E t, u \in Threads :
    /\ At(t, RunKinds, {"execute"})
    /\ At(u, {"add"}, {"lock"})
    /\ \E g \in handlers_ :
         /\ g.priority_ = Top(t).top.priority_
         /\ g.order_ < Top(t).top.order_

\* the main thread has found the store empty: execute_all is returning, or
\* execute_highest is returning false
DrainDone ==
  \/ At(Main, {"execute_all"}, {"return"})
  \/ At(Main, {"execute_highest"}, {"return"}) /\ ~Top(Main).ret

\* C6 (SpecFill): after concurrent adds, during one thread's drain no
\* callback is invoked twice and the invocations are in non-increasing
\* priority order; when the drain is done every add has had exactly one
\* execution
C6_DrainAfterConcurrentAdds ==
  /\ \A i \in Ids : Count(i) <= 1
  /\ \A i, j \in 1..Len(log) : i < j => LogPriority(i) >= LogPriority(j)
  /\ DrainDone =>
       /\ Len(added) = committed
       /\ Len(log) = Len(added)
       /\ \A i \in Ids : Count(i) = 1

\* the second thread, the main thread and the second thread again added;
\* the main thread's drain is done
C6_DrainedBothThreadsAdds ==
  /\ DrainDone
  /\ PrioritiesAdded = <<high, low, high, medium>>
  /\ log = <<1, 3, 4, 2>>

CriticalPcs == {"push", "pop", "check"}
LockPcs == {"lock", "get_top", "check_lock"}
CallbackPcs == {"execute", "callback", "called"}

\* a step of thread t, of the queue's code or of a callback
ThreadStep(t) == QueueStep(t) \/ CallbackStep(t)

\* C7 (SpecRe): a thread whose control is in a callback does not hold
\* handlers_mutex_; a thread holds it only inside one of the three critical
\* sections, so a thread about to take the mutex (also from inside a
\* callback) never waits for itself; and a thread inside a call can take a
\* step, or the mutex is held by another thread that can
C7_NoLockInCallback ==
  \A t \in Threads :
    /\ At(t, RunKinds, CallbackPcs) => handlers_mutex_ # t
    /\ At(t, RunKinds \cup {"add"}, LockPcs) => handlers_mutex_ # t
    /\ handlers_mutex_ = t => (~Idle(t) /\ Top(t).pc \in CriticalPcs)
    /\ ~Idle(t) =>
         \/ ENABLED ThreadStep(t)
         \/ \E u \in Threads \ {t} : handlers_mutex_ = u /\ ENABLED ThreadStep(u)

\* a callback has called execute_highest on its own queue; that call is
\* about to take the mutex, which the other thread holds inside add
C7_NestedCallAtLock ==
  \E t, u \in Threads :
    /\ Depth(t) = 2
    /\ stack[t][1].op \in RunKinds /\ stack[t][1].pc = "called"
    /\ stack[t][2].op = "execute_highest" /\ stack[t][2].pc = "get_top"
    /\ At(u, {"add"}, {"push"})
    /\ handlers_mutex_ = u

\* thread t takes the step that ends add's critical section
PushStep(t) == At(t, {"add"}, {"push"}) /\ stack'[t] # stack[t]

\* C8 (SpecCb): an add reached through dispatch, post or defer of an
\* executor of priority p (from the driver or from inside a running
\* callback) leaves the queue as add(p, f) does: one new pending handler of
\* priority p with the next sequence number, nothing executed
C8_VerbsOnlyEnqueue ==
  [][PushStep(Main) =>
       LET fr == Top(Main)
           h  == [priority_ |-> fr.bound,
                  order_ |-> IF order_ = 0 THEN SIZE_MAX ELSE order_ - 1,
                  function_ |-> fr.function,
                  id |-> Len(added) + 1]
       IN /\ h \notin handlers_
          /\ handlers_' = handlers_ \cup {h}
          /\ log' = log
          /\ h.id \notin Executed]_vars

\* dispatch called from inside a running callback has returned: the
\* dispatched function is pending at the executor's priority and has not run
C8_DispatchInsideCallback ==
  /\ At(Main, RunKinds, {"called"})
  /\ Top(Main).top.function_ = Fn("dispatch", low, 0)
  /\ Top(Main).top.priority_ = high
  /\ \E h \in handlers_ :
       /\ h.id = Len(added)
       /\ h.priority_ = low
       /\ h.function_ = Nop
       /\ h.id \notin Executed

\* the handler executed last threw
LastThrew == log # <<>> /\ added[log[Len(log)]].function_.kind = "throw"

\* C9 (SpecCb): when a callback has thrown, the driver has the exception and
\* no frame of the queue is left, the handler that threw was the last one
\* entered (the drain stopped), every handler not yet taken is pending with
\* the key add gave it, no executed handler is pending or is entered again,
\* and an execute_all that returns later has run everything that was left
C9_ExceptionPropagates ==
  /\ result[Main] = "exception" =>
       /\ Idle(Main)
       /\ LastThrew
       /\ handlers_ = {added[i] : i \in Ids \ Executed}
  /\ \A i \in Ids : Count(i) <= 1
  /\ PendingIds \cap Executed = {}
  /\ At(Main, {"execute_all"}, {"return"}) => Executed = Ids

\* a callback threw out of execute_all with two other handlers pending
C9_ThrewWithOthersPending ==
  /\ result[Main] = "exception"
  /\ Len(added) = 3
  /\ added[1].function_ = Throw /\ added[1].priority_ = high
  /\ log = <<1>>
  /\ PendingIds = {2, 3}

\* C10 (SpecWrap), as claimed: the counter does not wrap, so of two pending
\* handlers of one priority the one added later has the smaller sequence
\* number
C10_NeverWraps ==
  \A g, h \in handlers_ :
    (g.id < h.id /\ g.priority_ = h.priority_) => h.order_ < g.order_

\* thread t takes a step that brings its innermost call to one of pcs
Arrives(t, ops, pcs) ==
  /\ ~At(t, ops, pcs)
  /\ stack'[t] # <<>>
  /\ stack'[t][Len(stack'[t])].op \in ops
  /\ stack'[t][Len(stack'[t])].pc \in pcs

\* C11 (Spec), as claimed: in every interleaving, when execute_all is about
\* to return the store is empty and every handler added so far has been run
C11_EmptyAtReturn ==
  \A t \in Threads :
    At(t, {"execute_all"}, {"return"}) => handlers_ = {} /\ Executed = Ids

\* C11 (Spec), amended: execute_all gets to its return only from a critical
\* section of its own that found the store empty; at that instant every
\* handler added so far has been entered or is held by the other thread's
\* call; and between that instant and the return only another thread's add
\* makes the store non-empty
C11_EmptyWhenObserved ==
  /\ [][\A t \in Threads :
          Arrives(t, {"execute_all"}, {"return"}) =>
            /\ handlers_mutex_ = t
            /\ handlers_ = {} /\ handlers_' = {}
            /\ Top(t).top = NoHandler
            /\ Ids = Executed \cup Held]_vars
  /\ [][\A t \in Threads :
          (At(t, {"execute_all"}, {"return"}) /\ handlers_ = {}
             /\ handlers_' # {}) =>
            \E u \in Threads \ {t} : PushStep(u)]_vars

\* execute_all has run a handler and is about to return while a handler
\* that the other thread added since is pending
C11_AddLandedBeforeReturn ==
  \E t \in Threads :
    /\ At(t, {"execute_all"}, {"return"})
    /\ log # <<>>
    /\ \E h \in handlers_ : h.id = Len(added) /\ h.id \notin Executed

\* C12 (SpecEq): two executors compare equal exactly when they were
\* constructed on the same queue instance with the same priority, and !=
\* gives the opposite value; executors that differ in the queue or in the
\* priority compare unequal
C12_EqualIffSameQueueAndPriority ==
  cmp.compared =>
    /\ cmp.eq <=> (/\ cmp.from.left[1] = cmp.from.right[1]
                   /\ cmp.from.left[2] = cmp.from.right[2])
    /\ cmp.ne <=> ~cmp.eq
    /\ cmp.from.left[1] # cmp.from.right[1] => ~cmp.eq /\ cmp.ne
    /\ cmp.from.left[2] # cmp.from.right[2] => ~cmp.eq /\ cmp.ne

\* executors of one priority on two different queues have compared unequal
C12_SamePriorityOtherQueue ==
  /\ cmp.compared
  /\ cmp.from.left = <<ThisQueue, medium>>
  /\ cmp.from.right[1] # ThisQueue
  /\ cmp.from.right[2] = medium
  /\ cmp.ne /\ ~cmp.eq

\* C13 (SpecBind): when a third party completes the pair wrap(p, f), the call
\* it makes is the one dispatch of the executor (this queue, p) makes with f,
\* and it leaves the queue as that submission does: one new pending handler
\* of priority p holding f, with the next sequence number, and nothing is
\* executed by the completion
C13_WrappedCompletionEnqueues ==
  /\ [][(PushStep(Main) /\ Top(Main).via = "wrap") =>
          LET fr == Top(Main)
              h  == queued_handler(fr.bound, Decrement(order_), fr.function,
                                   Len(added) + 1)
          IN /\ fr = [Submit("dispatch", fr.bound, fr.function)
                        EXCEPT !.via = "wrap", !.pc = "push"]
             /\ h \notin handlers_
             /\ handlers_' = handlers_ \cup {h}
             /\ log' = log]_vars
  /\ [][At(Main, {"add"}, {"lock", "push"}) => log' = log]_vars
  /\ [](\A k \in 1..Depth(Main) :
          stack[Main][k].via = "wrap" => stack[Main][k].op = "add")

\* a third party is completing wrap(medium, f), f a callback that submits,
\* while another handler is pending
C13_CompletingWrapped ==
  /\ At(Main, {"add"}, {"push"})
  /\ Top(Main).via = "wrap"
  /\ Top(Main).bound = medium
  /\ Top(Main).function = Fn("add", high, 0)
  /\ handlers_ # {}

\* the frames of all threads: <<thread, position in its stack>>
Frames == UNION {{<<t, k>> : k \in 1..Depth(t)} : t \in Threads}
HeldBy(fk) == stack[fk[1]][fk[2]].top

\* C14 (SpecRe): a handler is out of the store before its callback starts:
\* none is both pending and held by a call (taken, or its callback running),
\* none that ran is pending again, no two calls (nested in one thread or in
\* different threads) hold the same handler, and none is entered twice; a
\* frame whose callback is running holds a handler that has been entered
C14_TakenBeforeRun ==
  /\ PendingIds \cap Held = {}
  /\ PendingIds \cap Executed = {}
  /\ \A i \in Ids : Count(i) <= 1
  /\ \A f, g \in Frames :
       (f # g /\ HeldBy(f).id # 0) => HeldBy(f).id # HeldBy(g).id
  /\ \A f \in Frames :
       stack[f[1]][f[2]].pc \in {"callback", "called"} =>
         /\ HeldBy(f).id \in Executed
         /\ HeldBy(f) = added[HeldBy(f).id]

\* a callback has called execute_highest from inside itself, and that call
\* is running the callback of another handler
C14_ReentrantRunsAnother ==
  /\ Depth(Main) = 2
  /\ stack[Main][1].pc = "called"
  /\ stack[Main][1].top.function_.kind = "execute_highest"
  /\ stack[Main][2].pc = "callback"
  /\ stack[Main][2].top.id # stack[Main][1].top.id
  /\ handlers_ = {}

\* handlers that have been entered and that no call holds any more
Finished == Executed \ Held

\* C15 (Spec): with both threads adding and executing, every handler add
\* has made is in exactly one of three places: pending in the store, held by
\* exactly one call (popped, its callback not yet returned), or finished; no
\* handler is held by two calls and none is entered more than once
C15_OnePlaceEach ==
  /\ \A i \in Ids :
       /\ i \in PendingIds \cup Held \cup Finished
       /\ i \notin PendingIds \cap Held
       /\ i \notin PendingIds \cap Finished
       /\ Count(i) <= 1
  /\ PendingIds \subseteq Ids
  /\ \A f, g \in Frames :
       (f # g /\ HeldBy(f).id # 0) => HeldBy(f).id # HeldBy(g).id

\* the two threads are each inside the callback of a different handler at
\* the same time, while a third handler is pending
C15_TwoCallbacksAtOnce ==
  /\ \A t \in Threads : At(t, RunKinds, {"callback"})
  /\ Top("t1").top.id # Top("t2").top.id
  /\ handlers_ # {}

\* C16 (Spec): in every interleaving of the two threads' adds, a thread is
\* in the body of add only while it alone holds the mutex, the decrement of
\* order_ and the insert of the handler stamped with the new value are one
\* step of that body and nothing else changes order_, no two handlers ever
\* made have the same sequence number, and a pop never takes a handler while
\* one of the same priority whose add had the mutex earlier is pending.
\* Spec makes fewer adds than order_ has values; the exhaustion is C10's case.
C16_AddIsAtomic ==
  /\ [](\A t \in Threads :
          At(t, {"add"}, {"push"}) =>
            /\ handlers_mutex_ = t
            /\ \A u \in Threads \ {t} :
                 ~At(u, {"add"} \cup RunKinds, CriticalPcs))
  /\ [](\A i, j \in Ids : i # j => added[i].order_ # added[j].order_)
  /\ [][order_' # order_ =>
          \E t \in Threads :
            /\ PushStep(t)
            /\ order_' = Decrement(order_)
            /\ handlers_' = handlers_ \cup {added'[Len(added')]}
            /\ added'[Len(added')].order_ = order_'
            /\ added'[Len(added')].id = Len(added) + 1]_vars
  /\ [][\A t \in Threads :
          (PopStep(t) /\ handlers_ # {}) =>
            LET h == stack'[t][Len(stack'[t])].top
            IN \A g \in handlers_ :
                 (g.priority_ = h.priority_ /\ g # h) => h.id < g.id]_vars

\* one thread is inside add's critical section and the other waits at the
\* lock with an add of the same priority, a handler of that priority pending
C16_TwoAddsRacing ==
  /\ At("t1", {"add"}, {"lock"})
  /\ At("t2", {"add"}, {"push"})
  /\ Top("t1").priority = low /\ Top("t2").priority = low
  /\ \E h \in handlers_ : h.priority_ = low

\* C17 (Spec): what add made of a handler never changes and every pending
\* handler is as add made it; a step that changes the store is either an
\* add's insert of exactly one new handler, the others left as they were, or
\* a pop's removal of exactly one handler, the rest and order_ left as they
\* were; nothing else changes the store or order_
C17_OnlyAddAndPopChangeTheStore ==
  /\ [](\A h \in handlers_ : h.id \in Ids /\ h = added[h.id])
  /\ [][\A i \in Ids : added'[i] = added[i]]_vars
  /\ [][\A t \in Threads :
          PushStep(t) =>
            \E h \in handlers_' \ handlers_ :
              /\ handlers_' = handlers_ \cup {h}
              /\ Cardinality(handlers_') = Cardinality(handlers_) + 1]_vars
  /\ [][\A t \in Threads :
          (PopStep(t) /\ handlers_ # {}) =>
            \E h \in handlers_ :
              /\ handlers_' = handlers_ \ {h}
              /\ stack'[t][Len(stack'[t])].top = h
              /\ order_' = order_]_vars
  /\ [][handlers_' # handlers_ => \E t \in Threads : PushStep(t) \/ PopStep(t)]_vars
  /\ [][order_' # order_ => \E t \in Threads : PushStep(t)]_vars

\* a pop has just taken one of three pending handlers and the other two are
\* pending as add made them
C17_PoppedOneOfThree ==
  /\ Len(added) = 3
  /\ \E t \in Threads : At(t, RunKinds, {"execute"}) /\ Top(t).top.id \in Ids
  /\ Cardinality(handlers_) = 2
  /\ \A h \in handlers_ : h = added[h.id]

\* the loop's call of execute_highest is about to return false
ReturningFalse == At(Main, {"execute_highest"}, {"return"}) /\ ~Top(Main).ret

\* C18 (SpecDrive), as claimed: when the call that ends the loop returns
\* false, every handler added has been executed and none is pending
C18_AllRunWhenStopping ==
  (driver = "polling" /\ ReturningFalse) => Executed = Ids /\ handlers_ = {}

\* C18 (SpecDrive), amended: with finitely many adds, callbacks that return
\* and a loop that keeps running, the loop eventually stops for good; the
\* check that ends it finds the store empty with every handler added up to
\* that instant executed; once it has stopped, a handler that has not run
\* is one added after that check and is pending (or taken by a further
\* call), and when there is none, further calls execute nothing
C18_DriverStops ==
  /\ <>[](driver = "stopped")
  /\ [][(driver = "polling" /\ Arrives(Main, {"execute_highest"}, {"return"})
           /\ handlers_ = {}) =>
          /\ ~stack'[Main][1].ret
          /\ Executed = Ids
          /\ Held = {}]_vars
  /\ [][(driver = "polling" /\ driver' = "stopped") => result[Main] = "false"]_vars
  /\ [](driver = "stopped" => Ids \ Executed \subseteq PendingIds \cup Held)
  /\ [][(driver = "stopped" /\ Executed = Ids) => log' = log]_vars

\* the loop has stopped after running every handler, one of them added by
\* a callback it ran, and a further execute_all has returned with nothing
\* more executed
C18_StoppedAfterAll ==
  /\ driver = "stopped"
  /\ Idle(Main) /\ result[Main] = "void"
  /\ Len(added) = MaxAddsDrive
  /\ Len(log) = MaxAddsDrive
  /\ \E i \in Ids : added[i].function_ = Fn("add", high, 0)

\* C19 (Spec): execute_highest pops and checks in two critical sections, the
\* mutex free in between while the callback runs; its value is made only in
\* the second one, as the non-emptiness of the store at that instant, which
\* the check leaves as it is; by then its callback, if it ran one, has
\* returned, so false means the store was empty at an instant after the
\* callback
C19_ValueIsStoreAtSecondLock ==
  /\ [][\A t \in Threads :
          Arrives(t, {"execute_highest"}, {"return"}) =>
            /\ At(t, {"execute_highest"}, {"check"})
            /\ handlers_mutex_ = t
            /\ stack'[t][Len(stack'[t])].ret = (handlers_ # {})
            /\ handlers_' = handlers_]_vars
  /\ [](\A t \in Threads :
          At(t, {"execute_highest"}, {"check_lock", "check", "return"}) =>
            Top(t).top = NoHandler)
  /\ [](\A t \in Threads :
          At(t, {"execute_highest"}, CallbackPcs \cup {"check_lock"}) =>
            handlers_mutex_ # t)

\* execute_highest found the queue empty, executed nothing, and is about to
\* return true: the other thread's add landed before its check
C19_TrueWithoutExecuting ==
  /\ At("t1", {"execute_highest"}, {"return"})
  /\ Top("t1").ret
  /\ log = <<>>
  /\ Len(added) = 1
  /\ handlers_ = {added[1]}

\* C20 (SpecWrap): order_ starts at SIZE_MAX; up to the exhaustion of the
\* counter (the first SIZE_MAX adds) the k-th add stamps its handler with
\* SIZE_MAX - k, so SIZE_MAX itself is given to none of them, and order_ is
\* SIZE_MAX less the number of adds made, whatever has been popped
C20_KthAddStampsMaxMinusK ==
  /\ Len(added) <= SIZE_MAX => order_ = SIZE_MAX - Len(added)
  /\ \A k \in Ids :
       k <= SIZE_MAX =>
         /\ added[k].order_ = SIZE_MAX - k
         /\ added[k].order_ # SIZE_MAX

\* the last add before the exhaustion has been made, after earlier handlers
\* were popped and run: order_ is 0 and so is the latest handler's number
C20_CountedDownToZero ==
  /\ Len(added) = SIZE_MAX
  /\ order_ = 0
  /\ added[SIZE_MAX].order_ = 0
  /\ Len(log) >= SIZE_MAX - MaxPending
  /\ handlers_ # {}

====
